---- MODULE Spec2Model ----
(***************************************************************************)
(* Upload middlewares of src/middlewares.js: diskStorage (multer disk      *)
(* storage under the local directory 'storage') and saveToDisk (relocation *)
(* of memory-buffered files under process.env.STORAGE_PATH).               *)
(*                                                                         *)
(* Strings are sequences of one-character strings, so that normalisation,  *)
(* joining and replacing are computed character by character.              *)
(***************************************************************************)
EXTENDS Integers, Sequences, FiniteSets, TLC

(* ------------------------------ bounds -------------------------------- *)

\* longest destination string enumerated
MaxLen == 5
\* number of files of a multi-file relocation request
MaxFiles == 2

(* ------------------------------ strings ------------------------------- *)

\* the characters destinations are built from
Chars == {"/", ".", "a"}

StringsUpTo(n) == UNION {[1..k -> Chars] : k \in 0..n}

StartsWith(s, c) == Len(s) > 0 /\ s[1] = c

EndsWith(s, c) == Len(s) > 0 /\ s[Len(s)] = c

\* s.slice(0, -1)
SliceLast(s) == SubSeq(s, 1, Len(s) - 1)

RECURSIVE SplitAt(_, _, _, _)
SplitAt(s, i, cur, acc) ==
  IF i > Len(s) THEN Append(acc, cur)
  ELSE IF s[i] = "/" THEN SplitAt(s, i + 1, <<>>, Append(acc, cur))
  ELSE SplitAt(s, i + 1, Append(cur, s[i]), acc)

\* the '/'-separated segments of s (empty segments included)
Segments(s) == SplitAt(s, 1, <<>>, <<>>)

RECURSIVE JoinSegments(_)
JoinSegments(segs) ==
  IF Len(segs) = 0 THEN <<>>
  ELSE IF Len(segs) = 1 THEN segs[1]
  ELSE segs[1] \o <<"/">> \o JoinSegments(Tail(segs))

DotDot == <<".", ".">>

\* Node's normalizeString: drops empty and '.' segments, resolves '..'
\* against the previous segment, keeps leading '..' only when allowAboveRoot
RECURSIVE normalizeString(_, _, _)
normalizeString(segs, allowAboveRoot, res) ==
  IF Len(segs) = 0 THEN res
  ELSE LET seg == Head(segs)
           rest == Tail(segs)
       IN IF seg = <<>> \/ seg = <<".">> THEN normalizeString(rest, allowAboveRoot, res)
          ELSE IF seg = DotDot
            THEN IF Len(res) > 0 /\ res[Len(res)] # DotDot
                   THEN normalizeString(rest, allowAboveRoot, SliceLast(res))
                 ELSE IF allowAboveRoot
                   THEN normalizeString(rest, allowAboveRoot, Append(res, DotDot))
                 ELSE normalizeString(rest, allowAboveRoot, res)
          ELSE normalizeString(rest, allowAboveRoot, Append(res, seg))

\* path.posix.normalize(p)
PosixNormalize(p) ==
  IF Len(p) = 0 THEN <<".">>
  ELSE LET isAbsolute == p[1] = "/"
           trailingSeparator == p[Len(p)] = "/"
           body == JoinSegments(normalizeString(Segments(p), ~isAbsolute, <<>>))
       IN IF Len(body) = 0
            THEN IF isAbsolute THEN <<"/">>
                 ELSE IF trailingSeparator THEN <<".", "/">> ELSE <<".">>
          ELSE LET withSep == IF trailingSeparator THEN body \o <<"/">> ELSE body
               IN IF isAbsolute THEN <<"/">> \o withSep ELSE withSep

\* path.join(a, b): the non-empty arguments joined by '/', then normalized
PathJoin(a, b) ==
  LET joined == IF Len(a) = 0 THEN b
                ELSE IF Len(b) = 0 THEN a
                ELSE a \o <<"/">> \o b
  IN IF Len(joined) = 0 THEN <<".">> ELSE PosixNormalize(joined)

\* if (!cleanDestination.startsWith('/')) cleanDestination = '/' + cleanDestination
LeadingSlash(s) == IF ~StartsWith(s, "/") THEN <<"/">> \o s ELSE s

\* if (cleanDestination.length > 1 && cleanDestination.endsWith('/')) slice(0, -1)
StripTrailingSlash(s) == IF Len(s) > 1 /\ EndsWith(s, "/") THEN SliceLast(s) ELSE s

\* the three normalisation statements of diskStorage and saveToDisk together
CleanDestination(d) == StripTrailingSlash(LeadingSlash(PosixNormalize(d)))

\* the fixed local directory of diskStorage
LocalStorageDir == <<"s", "t", "o", "r", "a", "g", "e">>

\* values of process.env.STORAGE_PATH
StorageRoots == {<<"/">>, <<"/", "s", "r", "v">>, LocalStorageDir}

\* the directory a path string names: a trailing '/' does not change it
DirOf(p) == StripTrailingSlash(PosixNormalize(p))

\* the directory named by t is root or lies below it
IsWithin(root, t) ==
  LET r == DirOf(root)
      d == DirOf(t)
      rs == SelectSeq(Segments(r), LAMBDA x : x # <<>> /\ x # <<".">>)
      ds == SelectSeq(Segments(d), LAMBDA x : x # <<>> /\ x # <<".">>)
  IN /\ StartsWith(r, "/") = StartsWith(d, "/")
     /\ Len(rs) <= Len(ds)
     /\ SubSeq(ds, 1, Len(rs)) = rs

(* ------------------------------ state --------------------------------- *)

VARIABLES
  mode,             \* which factory is being followed: "diskStorage" or "saveToDisk"
  destination,      \* the destination argument
  STORAGE_PATH,     \* process.env.STORAGE_PATH
  fileName,         \* the fileName argument of diskStorage
  cleanDestination, \* the local variable cleanDestination
  target,           \* the local variable target
  npc,              \* position in the normalisation statements
  kind,             \* what the request carries: "files" (req.files), "file" (req.file), "none"
  files,            \* the UploadedFile objects of the request, in order
  newFilePath,      \* per file, the path its write was issued for
  wstate,           \* per file: "idle", "writing", "landed", "done", "failed"
  step,             \* the saveToDisk handler: "start", "awaiting", "next", "rejected"
  error,            \* the error the handler rejected with
  disk,             \* the files on disk: path -> content
  dirs,             \* the directories that exist
  usedIds,          \* the identifiers uuid.v4() has returned
  dpc,              \* diskStorage: <<index of the file being handled, phase>>
  ereq              \* directory-ensure of two requests: per request its position

argVars == <<mode, destination, STORAGE_PATH, fileName>>
normVars == <<cleanDestination, target, npc>>
reqVars == <<kind, files, newFilePath, wstate, step, error>>
fsVars == <<disk, dirs, usedIds>>

vars == <<argVars, normVars, reqVars, fsVars, dpc, ereq>>

\* the value of an argument or attribute that was never set
Undefined == <<"undefined">>

NoError == <<"none">>

EmptyDisk == [p \in {} |-> ""]

\* the request and the filesystem are not involved
ReqIdle ==
  /\ kind = "none" /\ files = <<>> /\ newFilePath = <<>> /\ wstate = <<>>
  /\ step = "idle" /\ error = NoError

FsIdle == disk = EmptyDisk /\ dirs = {} /\ usedIds = {}

DiskIdle == dpc = <<0, "idle">>

EnsureIdle == ereq = <<>>

(* ------------------- normalisation and target directory --------------- *)

NormInit ==
  /\ mode \in {"diskStorage", "saveToDisk"}
  /\ destination \in StringsUpTo(MaxLen)
  /\ STORAGE_PATH \in StorageRoots
  /\ cleanDestination = <<>>
  /\ target = <<>>
  /\ npc = "normalize"
  /\ fileName = Undefined
  /\ ReqIdle /\ FsIdle /\ DiskIdle /\ EnsureIdle

\* let cleanDestination = path.posix.normalize(destination)
NormalizeStep ==
  /\ npc = "normalize"
  /\ cleanDestination' = PosixNormalize(destination)
  /\ npc' = "lead"
  /\ UNCHANGED <<argVars, target, reqVars, fsVars, dpc, ereq>>

LeadingSlashStep ==
  /\ npc = "lead"
  /\ cleanDestination' = LeadingSlash(cleanDestination)
  /\ npc' = "strip"
  /\ UNCHANGED <<argVars, target, reqVars, fsVars, dpc, ereq>>

TrailingSlashStep ==
  /\ npc = "strip"
  /\ cleanDestination' = StripTrailingSlash(cleanDestination)
  /\ npc' = "join"
  /\ UNCHANGED <<argVars, target, reqVars, fsVars, dpc, ereq>>

\* diskStorage: const target = path.join('storage', destination)
DiskTarget(d, clean) == PathJoin(LocalStorageDir, d)

\* saveToDisk: const target = path.join(process.env.STORAGE_PATH, cleanDestination)
RelocTarget(root, clean) == PathJoin(root, clean)

DiskTargetStep ==
  /\ npc = "join"
  /\ mode = "diskStorage"
  /\ target' = DiskTarget(destination, cleanDestination)
  /\ npc' = "done"
  /\ UNCHANGED <<argVars, cleanDestination, reqVars, fsVars, dpc, ereq>>

RelocTargetStep ==
  /\ npc = "join"
  /\ mode = "saveToDisk"
  /\ target' = RelocTarget(STORAGE_PATH, cleanDestination)
  /\ npc' = "done"
  /\ UNCHANGED <<argVars, cleanDestination, reqVars, fsVars, dpc, ereq>>

NormNext ==
  \/ NormalizeStep
  \/ LeadingSlashStep
  \/ TrailingSlashStep
  \/ DiskTargetStep
  \/ RelocTargetStep

SpecNorm == NormInit /\ [][NormNext]_vars

\* the root under which the followed factory places files
RootOf == IF mode = "diskStorage" THEN LocalStorageDir ELSE STORAGE_PATH

Normalized == npc \in {"join", "done"}

\* C1: every normalized destination starts with '/', ends with '/' only when
\* it is exactly '/', and has no '.' or '..' segment.
C1_NormalizedShape ==
  Normalized =>
    /\ StartsWith(cleanDestination, "/")
    /\ (EndsWith(cleanDestination, "/") => cleanDestination = <<"/">>)
    /\ \A i \in 1..Len(Segments(cleanDestination)) :
         Segments(cleanDestination)[i] \notin {<<".">>, DotDot}

\* C2: normalizing the normalized destination again yields it unchanged.
C2_Idempotent ==
  Normalized => CleanDestination(cleanDestination) = cleanDestination

\* C3: the destinations "" and "/" normalize to exactly "/", and the target
\* directory is then the root itself.
C3_EmptyAndRoot ==
  (npc = "done" /\ destination \in {<<>>, <<"/">>}) =>
    /\ cleanDestination = <<"/">>
    /\ DirOf(target) = DirOf(RootOf)

\* C4: the directory files are written into is the root or a descendant of it.
C4_TargetWithinRoot ==
  npc = "done" => IsWithin(RootOf, target)

\* C10: the directory diskStorage uses is path.join('storage', normalized
\* destination), the mapping saveToDisk applies under its root.
C10_DiskUsesNormalized ==
  (npc = "done" /\ mode = "diskStorage") =>
    DirOf(target) = DirOf(RelocTarget(LocalStorageDir, CleanDestination(destination)))

(* ------------------------- filesystem and uuid ------------------------ *)

\* the directory d with all its ancestors, as mkdirSync(d, {recursive: true}) creates them
Ancestors(d) ==
  LET segs == Segments(DirOf(d))
  IN ({JoinSegments(SubSeq(segs, 1, k)) : k \in 1..Len(segs)} \ {<<>>})
       \cup (IF StartsWith(d, "/") THEN {<<"/">>} ELSE {})

\* fs.existsSync(t)
ExistsSync(ds, t) == DirOf(t) \in ds

\* fs.mkdirSync(t): without the recursive option an existing directory
\* is EEXIST and a missing parent is ENOENT
MkdirSyncNotRecursive(ds, t) ==
  IF DirOf(t) \in ds THEN <<(<<"EEXIST">>), ds>>
  ELSE IF ~(Ancestors(t) \ {DirOf(t)} \subseteq ds) THEN <<(<<"ENOENT">>), ds>>
  ELSE <<NoError, ds \cup {DirOf(t)}>>

\* fs.mkdirSync(t, { recursive: true }): <<error, directories afterwards>>;
\* with recursive set, an existing directory is not an error
MkdirSync(ds, t) == <<NoError, ds \cup Ancestors(t)>>

\* if (!fs.existsSync(target)) fs.mkdirSync(target, { recursive: true })
EnsureDir(ds, t) == IF ~ExistsSync(ds, t) THEN MkdirSync(ds, t)[2] ELSE ds

\* the file at path p now holds content c
WriteFile(d, p, c) == [q \in DOMAIN d \cup {p} |-> IF q = p THEN c ELSE d[q]]

\* uuid.v4() values: fixed length, no '.' and no '/'
IdChars == <<"1", "2", "3", "4">>

Ids == {<<"u", IdChars[k]>> : k \in 1..(MaxFiles + 1)}

\* newFilePath.replace(/\\/g, '/')
ReplaceBackslash(s) == [k \in 1..Len(s) |-> IF s[k] = "\\" THEN "/" ELSE s[k]]

(* ------------------------------ saveToDisk ---------------------------- *)

RelocDests == {<<"/">>, <<"a", "/">>, <<".", ".", "/", "a">>}

RelocRoots == {<<"/", "s">>, <<"s", "\\", "v">>}

Exts == {<<"p", "n", "g">>, <<"t", "x", "t">>}

Buffers == {"x", "y"}

\* a memory-buffered file as saveToDisk receives it
BufferedFiles == [ext : Exts, buffer : Buffers, path : {Undefined}]

RelocInit ==
  /\ mode = "saveToDisk"
  /\ destination \in RelocDests
  /\ STORAGE_PATH \in RelocRoots
  /\ fileName = Undefined
  /\ cleanDestination = <<>> /\ target = <<>> /\ npc = "idle"
  /\ kind \in {"files", "file", "none"}
  /\ \E n \in 0..MaxFiles :
       /\ kind = "file" => n = 1
       /\ kind = "none" => n = 0
       /\ files \in [1..n -> BufferedFiles]
  /\ newFilePath = [i \in DOMAIN files |-> <<>>]
  /\ wstate = [i \in DOMAIN files |-> "idle"]
  /\ step = "start"
  /\ error = NoError
  /\ disk = EmptyDisk
  /\ dirs \in {{}, Ancestors(RelocTarget(STORAGE_PATH, CleanDestination(destination)))}
  /\ usedIds = {}
  /\ DiskIdle /\ EnsureIdle

\* Promise.race in place of Promise.all: one fulfilled promise is enough
PromiseRaceFulfilled(ws) == \E i \in DOMAIN ws : ws[i] = "done"

\* await Promise.all(fileSavePromises) resumes with success
PromiseAllFulfilled(ws) == \A i \in DOMAIN ws : ws[i] = "done"

\* lines 68-82: normalisation, target, directory-ensure (all synchronous)
RelocEnter ==
  /\ step = "start"
  /\ cleanDestination' = CleanDestination(destination)
  /\ target' = RelocTarget(STORAGE_PATH, cleanDestination')
  /\ dirs' = EnsureDir(dirs, target')

\* the handler up to await Promise.all: every map callback runs to its await
RelocBeginFiles ==
  /\ RelocEnter
  /\ kind = "files"
  /\ \E ids \in [DOMAIN files -> Ids \ usedIds] :
       /\ \A i, j \in DOMAIN files : i # j => ids[i] # ids[j]
       /\ usedIds' = usedIds \cup {ids[i] : i \in DOMAIN files}
       /\ newFilePath' = [i \in DOMAIN files |->
                            PathJoin(target', ids[i] \o <<".">> \o files[i].ext)]
  /\ wstate' = [i \in DOMAIN files |-> "writing"]
  /\ step' = IF PromiseAllFulfilled(wstate') THEN "next" ELSE "awaiting"
  /\ UNCHANGED <<argVars, npc, kind, files, error, disk, dpc, ereq>>

\* the handler up to await fs.promises.writeFile of the single file
RelocBeginFile ==
  /\ RelocEnter
  /\ kind = "file"
  /\ \E id \in Ids \ usedIds :
       /\ usedIds' = usedIds \cup {id}
       /\ newFilePath' = [i \in DOMAIN files |->
                            target' \o <<"/">> \o id \o <<".">> \o files[i].ext]
  /\ wstate' = [i \in DOMAIN files |-> "writing"]
  /\ step' = "awaiting"
  /\ UNCHANGED <<argVars, npc, kind, files, error, disk, dpc, ereq>>

\* neither req.files nor req.file: straight to next()
RelocBeginNone ==
  /\ RelocEnter
  /\ kind = "none"
  /\ step' = "next"
  /\ UNCHANGED <<argVars, npc, kind, files, newFilePath, wstate, error, disk, usedIds, dpc, ereq>>

\* fs.mkdirSync throws (permissions, disk full): the handler rejects
RelocMkdirThrows ==
  /\ step = "start"
  /\ cleanDestination' = CleanDestination(destination)
  /\ target' = RelocTarget(STORAGE_PATH, cleanDestination')
  /\ ~ExistsSync(dirs, target')
  /\ step' = "rejected"
  /\ error' = <<"mkdir">>
  /\ UNCHANGED <<argVars, npc, kind, files, newFilePath, wstate, fsVars, dpc, ereq>>

\* the write of file i reaches the disk
WriteLand(i) ==
  /\ wstate[i] = "writing"
  /\ disk' = WriteFile(disk, newFilePath[i], files[i].buffer)
  /\ wstate' = [wstate EXCEPT ![i] = "landed"]
  /\ UNCHANGED <<argVars, normVars, kind, files, newFilePath, step, error, dirs, usedIds, dpc, ereq>>

\* a rejection reaching the await of the handler: <<step, error>> afterwards.
\* AwaitSettledOnly is Promise.allSettled in place of Promise.all.
AwaitSettledOnly(i) == <<step, error>>

AwaitRejected(i) ==
  IF step = "awaiting" THEN <<"rejected", <<"write", i>>>> ELSE <<step, error>>

\* the write of file i fails: its promise rejects, and an awaiting handler
\* resumes with that error at once
WriteFail(i) ==
  /\ wstate[i] = "writing"
  /\ wstate' = [wstate EXCEPT ![i] = "failed"]
  /\ step' = AwaitRejected(i)[1]
  /\ error' = AwaitRejected(i)[2]
  /\ UNCHANGED <<argVars, normVars, kind, files, newFilePath, fsVars, dpc, ereq>>

\* lines 90-93: the map callback of file i resumes after its write and
\* records the path; the handler calls next() once Promise.all fulfils
FilesResume(i) ==
  /\ kind = "files"
  /\ wstate[i] = "landed"
  /\ files' = [files EXCEPT ![i].path = ReplaceBackslash(newFilePath[i])]
  /\ wstate' = [wstate EXCEPT ![i] = "done"]
  /\ step' = IF step = "awaiting" /\ PromiseAllFulfilled(wstate') THEN "next" ELSE step
  /\ UNCHANGED <<argVars, normVars, kind, newFilePath, error, fsVars, dpc, ereq>>

\* lines 99-102: the handler resumes after the single write
FileResume ==
  /\ kind = "file"
  /\ wstate[1] = "landed"
  /\ files' = [files EXCEPT ![1].path = <<"/">> \o ReplaceBackslash(newFilePath[1])]
  /\ wstate' = [wstate EXCEPT ![1] = "done"]
  /\ step' = "next"
  /\ UNCHANGED <<argVars, normVars, kind, newFilePath, error, fsVars, dpc, ereq>>

RelocNext ==
  \/ RelocBeginFiles
  \/ RelocBeginFile
  \/ RelocBeginNone
  \/ RelocMkdirThrows
  \/ \E i \in DOMAIN files : WriteLand(i)
  \/ \E i \in DOMAIN files : WriteFail(i)
  \/ \E i \in DOMAIN files : FilesResume(i)
  \/ FileResume

SpecReloc == RelocInit /\ [][RelocNext]_vars

InFlight(i) == wstate[i] \in {"writing", "landed"}

\* C5: in a multi-file relocation, once next() has been called every file is
\* on disk with its buffer and carries a recorded path; once a write has
\* failed the handler has rejected with the first failed write's error and
\* next() is not called.
C5_NextAfterAllWrites ==
  kind = "files" =>
    /\ step = "next" =>
         \A i \in DOMAIN files :
           /\ newFilePath[i] \in DOMAIN disk
           /\ disk[newFilePath[i]] = files[i].buffer
           /\ files[i].path # Undefined
    /\ (\E i \in DOMAIN files : wstate[i] = "failed") =>
         /\ step = "rejected"
         /\ error[1] = "write"
         /\ wstate[error[2]] = "failed"

C5_Witness ==
  /\ kind = "files" /\ Len(files) = MaxFiles /\ step = "next"
  /\ \A i \in DOMAIN files : wstate[i] = "done"

\* C6: after a successful relocation every relocated file, single or of a
\* set, has the recorded path '/' + forward-slash form of the path written
\* for it, and the file at that path holds its buffer.
C6_RecordedPath ==
  step = "next" =>
    \A i \in DOMAIN files :
      /\ files[i].path = <<"/">> \o ReplaceBackslash(newFilePath[i])
      /\ newFilePath[i] \in DOMAIN disk
      /\ disk[newFilePath[i]] = files[i].buffer

\* C9 (as claimed): when the handler has resumed, with success or with a
\* failure, no write of the request is still in flight.
C9_NoWriteInFlightAfterResume ==
  (kind = "files" /\ step \in {"next", "rejected"}) =>
    \A i \in DOMAIN files : ~InFlight(i)

\* C9 (amended): when the handler has resumed with success no write is in
\* flight; when it has resumed with a write failure, the write it reports
\* has failed (the others may still be in flight).
C9_ResumeAmended ==
  kind = "files" =>
    /\ step = "next" => \A i \in DOMAIN files : ~InFlight(i) /\ wstate[i] # "failed"
    /\ (step = "rejected" /\ error[1] = "write") => wstate[error[2]] = "failed"
    /\ step = "awaiting" => \E i \in DOMAIN files : InFlight(i)

C9_Witness ==
  /\ kind = "files" /\ step = "rejected" /\ error[1] = "write"
  /\ \E i \in DOMAIN files : InFlight(i)

(* ------------------------------ diskStorage --------------------------- *)

DiskDests == {<<"/">>, <<"a">>, <<"a", "/", ".", ".">>}

FixedNames == {<<"a", "v", "a", "t", "a", "r">>, <<"u", "1">>}

MimeTypes == {"image/png", "image/jpeg", "application/x-unknown", "application/x-other"}

\* what mime.getExtension returns for a type it does not know
Null == <<"null">>

\* mime.getExtension(file.mimetype)
GetExtension(m) ==
  CASE m = "image/png" -> <<"p", "n", "g">>
    [] m = "image/jpeg" -> <<"j", "p", "e", "g">>
    [] OTHER -> Null

\* a value inside a template literal: null prints as 'null'
TemplateValue(v) == IF v = Null THEN <<"n", "u", "l", "l">> ELSE v

\* Filename with the typeof test the wrong way round
FilenameTestInverted(fn, id, m) ==
  (IF fn = Undefined THEN fn ELSE id) \o <<".">> \o TemplateValue(GetExtension(m))

\* lines 51-54 with uuid.v4() = id: `${name}.${ext}`
Filename(fn, id, m) ==
  LET ext == GetExtension(m)
      name == IF fn # Undefined THEN fn ELSE id
  IN name \o <<".">> \o TemplateValue(ext)

\* a file part as multer hands it to the storage callbacks
IncomingFiles == [mimetype : MimeTypes, buffer : Buffers, filename : {Undefined}, path : {Undefined}]

\* the state after diskStorage(destination, fileName) has returned
DiskInit ==
  /\ mode = "diskStorage"
  /\ destination \in DiskDests
  /\ STORAGE_PATH = <<>>
  /\ fileName \in {Undefined} \cup FixedNames
  /\ cleanDestination = CleanDestination(destination)
  /\ target = <<>>
  /\ npc = "idle"
  /\ kind = "files"
  /\ \E n \in 1..MaxFiles : files \in [1..n -> IncomingFiles]
  /\ newFilePath = <<>> /\ wstate = <<>> /\ step = "idle" /\ error = NoError
  /\ disk = EmptyDisk
  /\ dirs \in {{}, Ancestors(DiskTarget(destination, cleanDestination))}
  /\ usedIds = {}
  /\ dpc = <<1, "destination">>
  /\ EnsureIdle

\* lines 41-49: the destination callback for the file being handled
DiskDestination ==
  /\ dpc[2] = "destination"
  /\ target' = DiskTarget(destination, cleanDestination)
  /\ dirs' = EnsureDir(dirs, target')
  /\ dpc' = <<dpc[1], "filename">>
  /\ UNCHANGED <<argVars, cleanDestination, npc, reqVars, disk, usedIds, ereq>>

\* lines 50-55: the filename callback, with a fixed name
DiskFilenameFixed ==
  /\ dpc[2] = "filename"
  /\ fileName # Undefined
  /\ files' = [files EXCEPT ![dpc[1]].filename = Filename(fileName, Undefined, files[dpc[1]].mimetype)]
  /\ dpc' = <<dpc[1], "write">>
  /\ UNCHANGED <<argVars, normVars, kind, newFilePath, wstate, step, error, fsVars, ereq>>

\* lines 50-55: the filename callback, calling uuid.v4()
DiskFilenameGenerated ==
  /\ dpc[2] = "filename"
  /\ fileName = Undefined
  /\ \E id \in Ids \ usedIds :
       /\ files' = [files EXCEPT ![dpc[1]].filename = Filename(fileName, id, files[dpc[1]].mimetype)]
       /\ usedIds' = usedIds \cup {id}
  /\ dpc' = <<dpc[1], "write">>
  /\ UNCHANGED <<argVars, normVars, kind, newFilePath, wstate, step, error, disk, dirs, ereq>>

\* multer's disk storage writes the part to path.join(destination, filename),
\* then turns to the next part of the request
DiskWrite ==
  /\ dpc[2] = "write"
  /\ LET i == dpc[1]
         finalPath == PathJoin(target, files[i].filename)
     IN /\ disk' = WriteFile(disk, finalPath, files[i].buffer)
        /\ files' = [files EXCEPT ![i].path = finalPath]
        /\ dpc' = IF i < Len(files) THEN <<i + 1, "destination">> ELSE <<i, "finished">>
  /\ UNCHANGED <<argVars, normVars, kind, newFilePath, wstate, step, error, dirs, usedIds, ereq>>

DiskNext ==
  \/ DiskDestination
  \/ DiskFilenameFixed
  \/ DiskFilenameGenerated
  \/ DiskWrite

SpecDisk == DiskInit /\ [][DiskNext]_vars

\* the last file of the request stored under the path of file i
LastAt(i) == CHOOSE k \in DOMAIN files :
  /\ files[k].path = files[i].path
  /\ \A j \in DOMAIN files : files[j].path = files[i].path => j <= k

\* C7: two files of one request get the same stored filename exactly when a
\* fixed filename was supplied and their content-type extensions are equal;
\* then both have the same path and it holds the later file's content;
\* without a fixed filename the filenames differ.
C7_SameNameIffFixedAndSameExt ==
  dpc[2] = "finished" =>
    \A i, j \in DOMAIN files : i < j =>
      /\ (files[i].filename = files[j].filename) <=>
           (fileName # Undefined /\ GetExtension(files[i].mimetype) = GetExtension(files[j].mimetype))
      /\ (files[i].filename = files[j].filename) =>
           (files[i].path = files[j].path /\ disk[files[i].path] = files[LastAt(i)].buffer)
      /\ fileName = Undefined => files[i].filename # files[j].filename

C7_Witness ==
  /\ dpc[2] = "finished" /\ fileName # Undefined
  /\ \E i, j \in DOMAIN files :
       /\ i < j
       /\ files[i].filename = files[j].filename
       /\ files[i].buffer # files[j].buffer
       /\ disk[files[i].path] = files[j].buffer

(* --------------------- directory-ensure of two requests --------------- *)

Requests == {1, 2}

EnsureDests == {<<"/">>, <<"a">>}

\* the target directory request q computes (line 42 or line 78)
EnsureTarget(q) ==
  IF q.mode = "diskStorage"
    THEN DiskTarget(q.destination, CleanDestination(q.destination))
    ELSE RelocTarget(STORAGE_PATH, CleanDestination(q.destination))

EnsureInit ==
  /\ mode = "both"
  /\ destination = <<>>
  /\ STORAGE_PATH \in {LocalStorageDir, <<"/", "s">>}
  /\ fileName = Undefined
  /\ cleanDestination = <<>> /\ target = <<>> /\ npc = "idle"
  /\ ReqIdle /\ DiskIdle
  /\ disk = EmptyDisk /\ usedIds = {}
  /\ ereq \in [Requests -> [mode : {"diskStorage", "saveToDisk"}, destination : EnsureDests,
                            pc : {"check"}, saw : {FALSE}, existed : {FALSE}, err : {NoError}]]
  /\ dirs \in {{}} \cup {Ancestors(EnsureTarget(ereq[r])) : r \in Requests}

\* fs.existsSync(target)
EnsureCheck(r) ==
  /\ ereq[r].pc = "check"
  /\ LET saw == ExistsSync(dirs, EnsureTarget(ereq[r]))
     IN ereq' = [ereq EXCEPT ![r].saw = saw, ![r].pc = IF saw THEN "write" ELSE "mkdir"]
  /\ UNCHANGED <<argVars, normVars, reqVars, fsVars, dpc>>

\* fs.mkdirSync(target, { recursive: true })
EnsureMkdir(r) ==
  /\ ereq[r].pc = "mkdir"
  /\ LET res == MkdirSync(dirs, EnsureTarget(ereq[r]))
     IN /\ dirs' = res[2]
        /\ ereq' = [ereq EXCEPT ![r].err = res[1],
                                ![r].pc = IF res[1] = NoError THEN "write" ELSE "failed"]
  /\ UNCHANGED <<argVars, normVars, reqVars, disk, usedIds, dpc>>

\* the request issues its first file write (cb(null, target) or writeFile)
EnsureWrite(r) ==
  /\ ereq[r].pc = "write"
  /\ ereq' = [ereq EXCEPT ![r].existed = ExistsSync(dirs, EnsureTarget(ereq[r])),
                          ![r].pc = "done"]
  /\ UNCHANGED <<argVars, normVars, reqVars, fsVars, dpc>>

EnsureNext ==
  \/ \E r \in Requests : EnsureCheck(r)
  \/ \E r \in Requests : EnsureMkdir(r)
  \/ \E r \in Requests : EnsureWrite(r)

SpecEnsure == EnsureInit /\ [][EnsureNext]_vars

\* C8: however the check and create steps of two requests interleave,
\* neither raises an error, and the directory exists when a request issues
\* its first write.
C8_EnsureRace ==
  \A r \in Requests :
    /\ ereq[r].err = NoError
    /\ ereq[r].pc # "failed"
    /\ ereq[r].pc \in {"write", "done"} => ExistsSync(dirs, EnsureTarget(ereq[r]))
    /\ ereq[r].pc = "done" => ereq[r].existed

\* both requests saw the same directory absent, and both went on to write
C8_Witness ==
  /\ EnsureTarget(ereq[1]) = EnsureTarget(ereq[2])
  /\ \A r \in Requests : ~ereq[r].saw /\ ereq[r].pc = "done" /\ ereq[r].err = NoError

====
